---- MODULE Spec2Model ----
(***************************************************************************)
(* Model of the media-monitor reconciliation engine:                       *)
(*   agents/tools/spot_matcher.py  (predicates, match_spots,               *)
(*                                  match_spots_tool)                      *)
(*   agents/tools/excel_parser.py  (parse_day_pattern)                     *)
(*   agents/tools/metrics_calculator.py  (calculate_metrics_tool)          *)
(*   agents/tools/report_generator.py  (generate_report_tool)              *)
(*   agents/api_server.py  (/analyze, /analyze-stream, temporary files)    *)
(*                                                                         *)
(* Strings are tuples of one-character strings, so that lower(), strip(),  *)
(* split() and the edit distance are computed and not assumed.  A float    *)
(* score is the exact fraction [num, den].  An object reference (id(p)) is *)
(* the index of the object in the list that owns it; 0 is None.            *)
(***************************************************************************)
EXTENDS Integers, Sequences, FiniteSets, TLC

\* Bounds of the model: longest plan and longest monitoring log explored.
MaxPlanned == 2
MaxAired == 2
\* longest day pattern handed to parse_day_pattern
MaxPatternLen == 3
\* the runs whose result goes on to the metrics: longest plan, and in the log
\* the most rows of the planned duration, of a duration 2 s off, and of
\* another program
MaxPlanLong == 7
MaxLogLong == 19
MaxLogOff == 3
MaxLogOther == 1

\* match_spots(program_threshold = 0.8, duration_tolerance = 2)
duration_tolerance == 2
program_threshold == [num |-> 8, den |-> 10]

\* date values of an aired row: a weekday 0..6 (Mon..Sun) of a valid ISO
\* date, NoDate for a missing "date" key, BadDate for a malformed string.
NoDate == -1
BadDate == -2

(***************************************************************************)
(* String primitives (Python str methods on tuples of characters)          *)
(***************************************************************************)
S(a) == <<a>>
Abs(x) == IF x < 0 THEN 0 - x ELSE x
\* min(a, b); the pair is bound once so that each argument is evaluated once
Min(a, b) == CHOOSE m \in { IF p[1] <= p[2] THEN p[1] ELSE p[2] : p \in {<<a, b>>} } : TRUE

LowerChar(c) ==
    CASE c = "N" -> "n"
      [] c = "T" -> "t"
      [] c = "V" -> "v"
      [] OTHER -> c

UpperChar(c) ==
    CASE c = "l" -> "L"
      [] c = "v" -> "V"
      [] c = "n" -> "N"
      [] c = "t" -> "T"
      [] OTHER -> c

StrLower(s) == [k \in 1..Len(s) |-> LowerChar(s[k])]
StrUpper(s) == [k \in 1..Len(s) |-> UpperChar(s[k])]

RECURSIVE LStrip(_)
LStrip(s) == IF Len(s) > 0 /\ s[1] = " " THEN LStrip(Tail(s)) ELSE s

RECURSIVE RStrip(_)
RStrip(s) ==
    IF Len(s) > 0 /\ s[Len(s)] = " " THEN RStrip(SubSeq(s, 1, Len(s) - 1)) ELSE s

StrStrip(s) == RStrip(LStrip(s))

\* " ".join(s.split()): no leading or trailing blank, runs of blanks become one
RECURSIVE CollapseBlanks(_)
CollapseBlanks(s) ==
    IF Len(s) < 2 THEN s
    ELSE IF s[1] = " " /\ s[2] = " " THEN CollapseBlanks(Tail(s))
    ELSE <<s[1]>> \o CollapseBlanks(Tail(s))

JoinSplit(s) == CollapseBlanks(StrStrip(s))

(***************************************************************************)
(* Scores: exact fractions                                                 *)
(***************************************************************************)
ScoreZero == [num |-> 0, den |-> 1]
ScoreOne == [num |-> 1, den |-> 1]
\* ScoreGT with >= written for >
ScoreGTOrEqual(a, b) == a.num * b.den >= b.num * a.den

ScoreGT(a, b) == a.num * b.den > b.num * a.den
ScoreGE(a, b) == a.num * b.den >= b.num * a.den

\* Levenshtein.ratio: 1 - indel_distance / (len1 + len2), the edit distance
\* in which a substitution costs 2 (one deletion and one insertion).
RECURSIVE IndelDistance(_, _)
IndelDistance(a, b) ==
    IF Len(a) = 0 THEN Len(b)
    ELSE IF Len(b) = 0 THEN Len(a)
    ELSE IF a[1] = b[1] THEN IndelDistance(Tail(a), Tail(b))
    ELSE 1 + Min(IndelDistance(Tail(a), b), IndelDistance(a, Tail(b)))

levenshtein_ratio(p1, p2) ==
    LET lensum == Len(p1) + Len(p2) IN
    IF lensum = 0 THEN ScoreOne
    ELSE [num |-> lensum - IndelDistance(p1, p2), den |-> lensum]

\* fuzzy_match_program without the test for an empty name of line 27
fuzzy_match_program_unguarded(program1, program2) ==
    LET Ratio(p1, p2) == IF p1 = p2 THEN ScoreOne ELSE levenshtein_ratio(p1, p2)
    IN CHOOSE r \in { Ratio(p[1], p[2]) :
                       p \in {<<JoinSplit(StrLower(program1)),
                                JoinSplit(StrLower(program2))>>} } : TRUE

fuzzy_match_program(program1, program2) ==
    IF Len(program1) = 0 \/ Len(program2) = 0 THEN ScoreZero
    ELSE LET Ratio(p1, p2) == IF p1 = p2 THEN ScoreOne ELSE levenshtein_ratio(p1, p2)
         \* the two normalised names are bound once, as the locals p1 and p2 are
         IN CHOOSE r \in { Ratio(p[1], p[2]) :
                            p \in {<<JoinSplit(StrLower(program1)),
                                     JoinSplit(StrLower(program2))>>} } : TRUE

\* check_duration_match with < written for <=
check_duration_match_strict(planned, actual, tolerance) ==
    Abs(planned - actual) < tolerance

check_duration_match(planned, actual, tolerance) ==
    Abs(planned - actual) <= tolerance

check_channel_match(planned, aired) ==
    IF Len(planned) = 0 \/ Len(aired) = 0 THEN FALSE
    ELSE StrStrip(StrLower(planned)) = StrStrip(StrLower(aired))

(***************************************************************************)
(* excel_parser.parse_day_pattern: day pattern -> list of weekday numbers  *)
(***************************************************************************)
day_map_keys == {"L", "M", "X", "J", "V", "S", "D"}

\* day_map with "M" read as Monday
day_map_m_monday(c) ==
    CASE c = "L" -> 0
      [] c = "M" -> 0
      [] c = "X" -> 2
      [] c = "J" -> 3
      [] c = "V" -> 4
      [] c = "S" -> 5
      [] c = "D" -> 6

day_map(c) ==
    CASE c = "L" -> 0
      [] c = "M" -> 1
      [] c = "X" -> 2
      [] c = "J" -> 3
      [] c = "V" -> 4
      [] c = "S" -> 5
      [] c = "D" -> 6

\* day_map.get(token, default)
DayMapGet(tok, default) ==
    IF Len(tok) = 1 /\ tok[1] \in day_map_keys THEN day_map(tok[1]) ELSE default

\* list(range(a, b))
Range(a, b) == [k \in 1..(b - a) |-> a + k - 1]

\* s.split(sep) for a one-character separator
RECURSIVE SplitOn(_, _)
SplitOn(s, seps) ==
    IF \A k \in 1..Len(s) : s[k] \notin seps THEN <<s>>
    ELSE LET k == CHOOSE k \in 1..Len(s) :
                      s[k] \in seps /\ \A m \in 1..(k - 1) : s[m] \notin seps
         IN <<SubSeq(s, 1, k - 1)>> \o SplitOn(SubSeq(s, k + 1, Len(s)), seps)

\* the tokens of re.split(r'[,\s]+', days) that are keys of day_map, in order
\* (splitting at every separator only adds empty tokens, which are no keys)
RECURSIVE DayTokens(_)
DayTokens(toks) ==
    IF Len(toks) = 0 THEN <<>>
    ELSE IF Len(toks[1]) = 1 /\ toks[1][1] \in day_map_keys
         THEN <<day_map(toks[1][1])>> \o DayTokens(Tail(toks))
         ELSE DayTokens(Tail(toks))

parse_day_pattern(days0) ==
    IF Len(days0) = 0 THEN <<>>
    ELSE LET days == StrStrip(StrUpper(days0))
             parts == SplitOn(days, {"-"})
             start == DayMapGet(StrStrip(parts[1]), 0)
             end == DayMapGet(StrStrip(parts[2]), 4)
             result == DayTokens(SplitOn(days, {",", " "}))
         IN IF (\E k \in 1..Len(days) : days[k] = "-") /\ Len(parts) = 2
            THEN IF start <= end THEN Range(start, end + 1)
                 ELSE Range(start, 7) \o Range(0, end + 1)
            ELSE IF Len(result) > 0 THEN result ELSE <<0, 1, 2, 3, 4>>

(***************************************************************************)
(* spot_matcher.categorize_discrepancy.  planned and aired are Optional:   *)
(* <<>> is None, <<spot>> is a spot.  A formatted string is the tuple of   *)
(* the values it interpolates; a None string is <<>>.                      *)
(***************************************************************************)
categorize_discrepancy(planned, aired, match_score) ==
    IF Len(planned) = 0 /\ Len(aired) # 0 THEN
        [type |-> "extra_spot", severity |-> "medium",
         channel |-> aired[1].channel, program |-> aired[1].program,
         expected |-> <<>>, actual |-> <<aired[1].program, "on", aired[1].date>>,
         explanation |-> "was not in the plan"]
    ELSE IF Len(aired) = 0 /\ Len(planned) # 0 THEN
        [type |-> "missing_spot", severity |-> "high",
         channel |-> planned[1].channel, program |-> planned[1].program,
         expected |-> <<planned[1].program, planned[1].days>>, actual |-> <<>>,
         explanation |-> "did not air"]
    ELSE IF Len(planned) # 0 /\ Len(aired) # 0
            /\ ~check_channel_match(planned[1].channel, aired[1].channel) THEN
        [type |-> "wrong_channel", severity |-> "high",
         channel |-> planned[1].channel, program |-> planned[1].program,
         expected |-> <<planned[1].channel>>, actual |-> <<aired[1].channel>>,
         explanation |-> "aired on another channel"]
    ELSE IF Len(planned) # 0 /\ Len(aired) # 0
            /\ ~check_duration_match(planned[1].duration, aired[1].duration, 2) THEN
        [type |-> "wrong_duration", severity |-> "medium",
         channel |-> planned[1].channel, program |-> planned[1].program,
         expected |-> <<planned[1].duration, "s">>,
         actual |-> <<aired[1].duration, "s">>,
         explanation |-> "had another duration"]
    ELSE IF Len(planned) # 0 /\ Len(aired) # 0
            /\ ~ScoreGE(match_score, [num |-> 8, den |-> 10]) THEN
        [type |-> "wrong_program", severity |-> "high",
         channel |-> planned[1].channel, program |-> planned[1].program,
         expected |-> <<planned[1].program>>, actual |-> <<aired[1].program>>,
         explanation |-> "aired in another program"]
    ELSE
        [type |-> "missing_spot", severity |-> "low",
         channel |-> IF Len(planned) # 0 THEN planned[1].channel
                     ELSE IF Len(aired) # 0 THEN aired[1].channel
                     ELSE <<"U", "n", "k", "n", "o", "w", "n">>,
         program |-> IF Len(planned) # 0 THEN planned[1].program
                     ELSE IF Len(aired) # 0 THEN aired[1].program
                     ELSE <<"U", "n", "k", "n", "o", "w", "n">>,
         expected |-> planned, actual |-> aired,
         explanation |-> "Unspecified discrepancy"]

(***************************************************************************)
(* Inputs: the rows the parsers hand to match_spots_tool                   *)
(***************************************************************************)
TVN == <<"T", "V", "N">>
TVNpadded == <<"t", "v", "n", " ">>
MEDCOM == <<"M">>
News == <<"N", "e", "w", "s">>
NewsBlank == <<" ", "n", "e", "w", "s">>
Newsx == <<"n", "e", "w", "s", "x">>
Nows == <<"n", "o", "w", "s">>
Nowsx == <<"n", "o", "w", "s", "x">>
LV == <<"L", "-", "V">>
DM == <<"D", "-", "M">>
Morning == <<"a", "m">>

PlannedRow(c, p, d, dur, n) ==
    [channel |-> c, program |-> p, days |-> d, time_slot |-> Morning,
     duration |-> dur, count |-> n]

AiredRow(c, p, d, dur) ==
    [channel |-> c, program |-> p, date |-> d, duration |-> dur]

\* rows of the plan file (planned_data["data"], sheets concatenated)
PlannedPool ==
    { PlannedRow(TVN, News, LV, 30, 1),
      PlannedRow(TVN, Newsx, LV, 32, 1),
      PlannedRow(TVN, News, LV, 33, 2),
      PlannedRow(MEDCOM, News, DM, 33, 1) }

\* rows of the monitoring log (aired_data["data"])
AiredPool ==
    { AiredRow(TVN, News, 0, 30),
      AiredRow(TVN, News, 6, 30),
      AiredRow(TVNpadded, NewsBlank, 1, 33),
      AiredRow(TVN, Nows, 0, 30),
      AiredRow(TVN, Nowsx, 0, 30),
      AiredRow(MEDCOM, News, BadDate, 35) }

SeqUpTo(pool, n) == UNION { [1..k -> pool] : k \in 0..n }

\* day_pattern and weekdays are the argument and the result of parse_day_pattern;
\* metrics is the result of calculate_metrics_tool, metrics_object the Metrics
\* object of calculate_metrics_from_result
VARIABLES planned_data, aired_data, planned_spots, aired_spots, matched,
          discrepancies, unmatched_planned, unmatched_aired,
          planned_match_counts, i, pc, summary, day_pattern, weekdays, metrics,
          metrics_object, plan_error, execution_error, report, endpoint,
          api_pc, events, temp_files, plan_path, execution_path, response

vars == <<planned_data, aired_data, planned_spots, aired_spots, matched,
          discrepancies, unmatched_planned, unmatched_aired,
          planned_match_counts, i, pc, summary, day_pattern, weekdays, metrics,
          metrics_object, plan_error, execution_error, report, endpoint,
          api_pc, events, temp_files, plan_path, execution_path, response>>

\* the state of a request to api_server and of the tools' error results
request_vars == <<plan_error, execution_error, report, endpoint, api_pc,
                  events, temp_files, plan_path, execution_path, response>>

NoSummary ==
    [success |-> FALSE, total_planned |-> 0, total_aired |-> 0, matched |-> 0,
     unmatched_planned |-> 0, unmatched_aired |-> 0, discrepancies |-> 0]

NoMetrics == [success |-> FALSE]

NoReport == [success |-> FALSE]

\* a place in a request handler: what it is doing and in which stage
At(a, s) == [at |-> a, stage |-> s]

NoResponse == [status_code |-> 0]

\* no request to api_server: the tools are called on parsed input without an error
NoRequest ==
    /\ plan_error = <<>>
    /\ execution_error = <<>>
    /\ report = NoReport
    /\ endpoint = "tool"
    /\ api_pc = At("idle", "")
    /\ events = <<>>
    /\ temp_files = {}
    /\ plan_path = <<>>
    /\ execution_path = <<>>
    /\ response = NoResponse

Init ==
    /\ planned_data \in SeqUpTo(PlannedPool, MaxPlanned)
    /\ aired_data \in SeqUpTo(AiredPool, MaxAired)
    /\ planned_spots = <<>>
    /\ aired_spots = <<>>
    /\ matched = <<>>
    /\ discrepancies = <<>>
    /\ unmatched_planned = <<>>
    /\ unmatched_aired = <<>>
    /\ planned_match_counts = <<>>
    /\ i = 0
    /\ pc = "tool"
    /\ summary = NoSummary
    /\ day_pattern = <<>>
    /\ weekdays = <<>>
    /\ metrics = NoMetrics
    /\ metrics_object = NoMetrics
    /\ NoRequest

(***************************************************************************)
(* match_spots_tool, lines 246-275: JSON rows back to spot objects         *)
(***************************************************************************)
PlannedSpotOf(spot_dict) ==
    [channel |-> spot_dict.channel, program |-> spot_dict.program,
     days |-> spot_dict.days, time_slot |-> spot_dict.time_slot,
     duration |-> spot_dict.duration, count |-> spot_dict.count]

\* datetime.fromisoformat: a missing date stays None, a malformed one raises
\* ValueError, which is passed over, and stays None
AiredSpotOf(spot_dict) ==
    [channel |-> spot_dict.channel, program |-> spot_dict.program,
     date |-> IF spot_dict.date \in 0..6 THEN spot_dict.date ELSE NoDate,
     duration |-> spot_dict.duration]

ToolConvert ==
    /\ pc = "tool"
    /\ plan_error = <<>> /\ execution_error = <<>>
    /\ planned_spots' = [k \in 1..Len(planned_data) |-> PlannedSpotOf(planned_data[k])]
    /\ aired_spots' = [k \in 1..Len(aired_data) |-> AiredSpotOf(aired_data[k])]
    /\ pc' = "match_spots"
    /\ UNCHANGED <<request_vars, metrics_object, day_pattern, weekdays, metrics, planned_data, aired_data, matched, discrepancies,
                   unmatched_planned, unmatched_aired, planned_match_counts,
                   i, summary>>

(***************************************************************************)
(* match_spots                                                             *)
(***************************************************************************)
\* lines 166-172
MatchInit ==
    /\ pc = "match_spots"
    /\ matched' = <<>>
    /\ discrepancies' = <<>>
    /\ unmatched_planned' = [k \in 1..Len(planned_spots) |-> k]
    /\ unmatched_aired' = <<>>
    /\ planned_match_counts' = [k \in 1..Len(planned_spots) |-> 0]
    /\ i' = 1
    /\ pc' = "loop"
    /\ UNCHANGED <<request_vars, metrics_object, day_pattern, weekdays, metrics, planned_data, aired_data, planned_spots, aired_spots, summary>>

\* lines 175-194: the scan of planned_spots for one aired spot, from index k
RECURSIVE ScanPlanned(_, _, _, _, _)
ScanPlanned(ps, aired, tolerance, k, best0) ==
    LET Step(best) ==
            IF k > Len(ps) THEN best
            ELSE IF ~check_channel_match(ps[k].channel, aired.channel)
                 THEN ScanPlanned(ps, aired, tolerance, k + 1, best)
            ELSE IF ~check_duration_match(ps[k].duration, aired.duration, tolerance)
                 THEN ScanPlanned(ps, aired, tolerance, k + 1, best)
            ELSE LET Keep(score) ==
                         IF ScoreGT(score, best.best_score)
                         THEN ScanPlanned(ps, aired, tolerance, k + 1,
                                          [best_planned |-> k, best_score |-> score])
                         ELSE ScanPlanned(ps, aired, tolerance, k + 1, best)
                 IN CHOOSE r \in { Keep(score) : score \in
                                     {fuzzy_match_program(ps[k].program, aired.program)} } : TRUE
    \* best_planned and best_score are locals: they are bound once per turn
    IN CHOOSE r \in { Step(best) : best \in {best0} } : TRUE

FindBest(ps, aired, tolerance) ==
    ScanPlanned(ps, aired, tolerance, 1, [best_planned |-> 0, best_score |-> ScoreZero])

\* dataclass __eq__: two PlannedSpot references are equal when their fields are
PlannedEq(ps, a, b) == ps[a] = ps[b]

\* `x in lst` and lst.remove(x) on a list of PlannedSpot references
ListContains(ps, lst, x) == \E j \in 1..Len(lst) : PlannedEq(ps, lst[j], x)

ListRemove(ps, lst, x) ==
    LET j == CHOOSE j \in 1..Len(lst) :
                 PlannedEq(ps, lst[j], x)
                 /\ \A m \in 1..(j - 1) : ~PlannedEq(ps, lst[m], x)
    IN SubSeq(lst, 1, j - 1) \o SubSeq(lst, j + 1, Len(lst))

\* GoodMatch with the threshold comparison of line 196 left out
GoodMatchNoThreshold(best, threshold) ==
    best.best_planned # 0

\* GoodMatch with > written for >= in the comparison of line 196
GoodMatchStrict(best, threshold) ==
    best.best_planned # 0 /\ ScoreGT(best.best_score, threshold)

\* line 196: a PlannedSpot object is truthy, so best_planned is a test for None
GoodMatch(best, threshold) ==
    best.best_planned # 0 /\ ScoreGE(best.best_score, threshold)

\* MatchAiredCommit without the test of line 206: remove() of a spot that is
\* not in the list raises ValueError and match_spots never returns
MatchAiredCommitUnguardedRemove ==
    /\ pc = "loop"
    /\ i <= Len(aired_spots)
    /\ \E best \in {FindBest(planned_spots, aired_spots[i], duration_tolerance)} :
        /\ GoodMatch(best, program_threshold)
        /\ ListContains(planned_spots, unmatched_planned, best.best_planned)
        /\ matched' = Append(matched, [planned |-> best.best_planned, aired |-> i,
                                       match_score |-> best.best_score])
        /\ planned_match_counts' =
               [planned_match_counts EXCEPT ![best.best_planned] = @ + 1]
        /\ unmatched_planned' =
               ListRemove(planned_spots, unmatched_planned, best.best_planned)
    /\ i' = i + 1
    /\ UNCHANGED <<request_vars, metrics_object, day_pattern, weekdays, metrics, planned_data, aired_data, planned_spots, aired_spots,
                   discrepancies, unmatched_aired, pc, summary>>

\* MatchAiredCommit that drops the earlier pairs of the planned spot it commits
MatchAiredCommitRepairing ==
    /\ pc = "loop"
    /\ i <= Len(aired_spots)
    /\ \E best \in {FindBest(planned_spots, aired_spots[i], duration_tolerance)} :
       LET Keep(m) == m.planned # best.best_planned IN
        /\ GoodMatch(best, program_threshold)
        /\ matched' = Append(SelectSeq(matched, Keep),
                             [planned |-> best.best_planned, aired |-> i,
                              match_score |-> best.best_score])
        /\ planned_match_counts' =
               [planned_match_counts EXCEPT ![best.best_planned] = @ + 1]
        /\ unmatched_planned' =
               IF ListContains(planned_spots, unmatched_planned, best.best_planned)
               THEN ListRemove(planned_spots, unmatched_planned, best.best_planned)
               ELSE unmatched_planned
    /\ i' = i + 1
    /\ UNCHANGED <<request_vars, metrics_object, day_pattern, weekdays, metrics, planned_data, aired_data, planned_spots, aired_spots,
                   discrepancies, unmatched_aired, pc, summary>>

\* MatchAiredCommit that marks the planned spot it commits on the spot itself
MatchAiredCommitMarking ==
    /\ pc = "loop"
    /\ i <= Len(aired_spots)
    /\ \E best \in {FindBest(planned_spots, aired_spots[i], duration_tolerance)} :
        /\ GoodMatch(best, program_threshold)
        /\ planned_spots' = [planned_spots EXCEPT ![best.best_planned].count = 0]
        /\ matched' = Append(matched, [planned |-> best.best_planned, aired |-> i,
                                       match_score |-> best.best_score])
        /\ planned_match_counts' =
               [planned_match_counts EXCEPT ![best.best_planned] = @ + 1]
        /\ unmatched_planned' =
               IF ListContains(planned_spots, unmatched_planned, best.best_planned)
               THEN ListRemove(planned_spots, unmatched_planned, best.best_planned)
               ELSE unmatched_planned
    /\ i' = i + 1
    /\ UNCHANGED <<request_vars, metrics_object, day_pattern, weekdays, metrics, planned_data, aired_data, aired_spots,
                   discrepancies, unmatched_aired, pc, summary>>

\* lines 174-207, the branch of line 196 taken
MatchAiredCommit ==
    /\ pc = "loop"
    /\ i <= Len(aired_spots)
    /\ \E best \in {FindBest(planned_spots, aired_spots[i], duration_tolerance)} :
        /\ GoodMatch(best, program_threshold)
        /\ matched' = Append(matched, [planned |-> best.best_planned, aired |-> i,
                                       match_score |-> best.best_score])
        /\ planned_match_counts' =
               [planned_match_counts EXCEPT ![best.best_planned] = @ + 1]
        /\ unmatched_planned' =
               IF ListContains(planned_spots, unmatched_planned, best.best_planned)
               THEN ListRemove(planned_spots, unmatched_planned, best.best_planned)
               ELSE unmatched_planned
    /\ i' = i + 1
    /\ UNCHANGED <<request_vars, metrics_object, day_pattern, weekdays, metrics, planned_data, aired_data, planned_spots, aired_spots,
                   discrepancies, unmatched_aired, pc, summary>>

\* MatchAiredNoMatch with the append of line 210 left out
MatchAiredNoMatchDropped ==
    /\ pc = "loop"
    /\ i <= Len(aired_spots)
    /\ ~GoodMatch(FindBest(planned_spots, aired_spots[i], duration_tolerance),
                  program_threshold)
    /\ discrepancies' =
           Append(discrepancies, categorize_discrepancy(<<>>, <<aired_spots[i]>>, ScoreZero))
    /\ i' = i + 1
    /\ UNCHANGED <<request_vars, metrics_object, day_pattern, weekdays, metrics, planned_data, aired_data, planned_spots, aired_spots, matched,
                   unmatched_planned, unmatched_aired, planned_match_counts,
                   pc, summary>>

\* lines 174-195 and 208-211, the else branch
MatchAiredNoMatch ==
    /\ pc = "loop"
    /\ i <= Len(aired_spots)
    /\ ~GoodMatch(FindBest(planned_spots, aired_spots[i], duration_tolerance),
                  program_threshold)
    /\ unmatched_aired' = Append(unmatched_aired, i)
    /\ discrepancies' =
           Append(discrepancies, categorize_discrepancy(<<>>, <<aired_spots[i]>>, ScoreZero))
    /\ i' = i + 1
    /\ UNCHANGED <<request_vars, metrics_object, day_pattern, weekdays, metrics, planned_data, aired_data, planned_spots, aired_spots, matched,
                   unmatched_planned, planned_match_counts, pc, summary>>

\* MatchFinalize that puts the missing spots in front of the list
MatchFinalizePrepended ==
    /\ pc = "loop"
    /\ i > Len(aired_spots)
    /\ discrepancies' =
           [k \in 1..Len(unmatched_planned) |->
               categorize_discrepancy(<<planned_spots[unmatched_planned[k]]>>, <<>>, ScoreZero)]
           \o discrepancies
    /\ pc' = "return"
    /\ UNCHANGED <<request_vars, metrics_object, day_pattern, weekdays, metrics, planned_data, aired_data, planned_spots, aired_spots, matched,
                   unmatched_planned, unmatched_aired, planned_match_counts,
                   i, summary>>

\* lines 213-222
MatchFinalize ==
    /\ pc = "loop"
    /\ i > Len(aired_spots)
    /\ discrepancies' = discrepancies \o
           [k \in 1..Len(unmatched_planned) |->
               categorize_discrepancy(<<planned_spots[unmatched_planned[k]]>>, <<>>, ScoreZero)]
    /\ pc' = "return"
    /\ UNCHANGED <<request_vars, metrics_object, day_pattern, weekdays, metrics, planned_data, aired_data, planned_spots, aired_spots, matched,
                   unmatched_planned, unmatched_aired, planned_match_counts,
                   i, summary>>

\* ToolSummary with the two unmatched counts exchanged
ToolSummarySwapped ==
    /\ pc = "return"
    /\ summary' = [success |-> TRUE,
                   total_planned |-> Len(planned_spots),
                   total_aired |-> Len(aired_spots),
                   matched |-> Len(matched),
                   unmatched_planned |-> Len(unmatched_aired),
                   unmatched_aired |-> Len(unmatched_planned),
                   discrepancies |-> Len(discrepancies)]
    /\ pc' = "done"
    /\ UNCHANGED <<request_vars, metrics_object, day_pattern, weekdays, metrics, planned_data, aired_data, planned_spots, aired_spots, matched,
                   discrepancies, unmatched_planned, unmatched_aired,
                   planned_match_counts, i>>

\* match_spots_tool, lines 280-291
ToolSummary ==
    /\ pc = "return"
    /\ summary' = [success |-> TRUE,
                   total_planned |-> Len(planned_spots),
                   total_aired |-> Len(aired_spots),
                   matched |-> Len(matched),
                   unmatched_planned |-> Len(unmatched_planned),
                   unmatched_aired |-> Len(unmatched_aired),
                   discrepancies |-> Len(discrepancies)]
    /\ pc' = "done"
    /\ UNCHANGED <<request_vars, metrics_object, day_pattern, weekdays, metrics, planned_data, aired_data, planned_spots, aired_spots, matched,
                   discrepancies, unmatched_planned, unmatched_aired,
                   planned_match_counts, i>>

Next ==
    \/ ToolConvert
    \/ MatchInit
    \/ MatchAiredCommit
    \/ MatchAiredNoMatch
    \/ MatchFinalize
    \/ ToolSummary

Spec == Init /\ [][Next]_vars

\* the run is synchronous straight-line code: a step that can be taken is taken
FairSpec == Spec /\ WF_vars(Next)

(***************************************************************************)
(* parse_day_pattern on its own: nothing in the repository calls it, so    *)
(* its argument is any short string over day letters, separators, a lower  *)
(* case letter and a letter that is no day.                                *)
(***************************************************************************)
DayChars == {"L", "M", "V", "D", "-", ",", " ", "l", "Q"}

DayPatterns == UNION { [1..k -> DayChars] : k \in 0..MaxPatternLen }

DayInit ==
    /\ day_pattern \in DayPatterns
    /\ weekdays = <<>>
    /\ pc = "parse_day_pattern"
    /\ planned_data = <<>>
    /\ aired_data = <<>>
    /\ planned_spots = <<>>
    /\ aired_spots = <<>>
    /\ matched = <<>>
    /\ discrepancies = <<>>
    /\ unmatched_planned = <<>>
    /\ unmatched_aired = <<>>
    /\ planned_match_counts = <<>>
    /\ i = 0
    /\ summary = NoSummary
    /\ metrics = NoMetrics
    /\ metrics_object = NoMetrics
    /\ NoRequest

ParseDayPattern ==
    /\ pc = "parse_day_pattern"
    /\ weekdays' = parse_day_pattern(day_pattern)
    /\ pc' = "parsed"
    /\ UNCHANGED <<request_vars, metrics_object, day_pattern, metrics, planned_data, aired_data, planned_spots,
                   aired_spots, matched, discrepancies, unmatched_planned,
                   unmatched_aired, planned_match_counts, i, summary>>

DayNext == ParseDayPattern

DaySpec == DayInit /\ [][DayNext]_vars

(***************************************************************************)
(* metrics_calculator.  A percentage is held in hundredths of a percent,   *)
(* the unit round(x, 2) rounds to: 100.0 is 10000 and 33.33 is 3333.       *)
(***************************************************************************)
\* round(n / d) to an integer, a tie going to the even neighbour
RoundHalfEven(n, d) ==
    LET q == n \div d
        r == n % d
    IN IF 2 * r < d THEN q
       ELSE IF 2 * r > d THEN q + 1
       ELSE IF q % 2 = 0 THEN q ELSE q + 1

\* calculate_delivery_rate that cuts the third decimal off
calculate_delivery_rate_truncated(matched_count, total_planned) ==
    IF total_planned = 0 THEN 10000
    ELSE (matched_count * 10000) \div total_planned

calculate_delivery_rate(matched_count, total_planned) ==
    IF total_planned = 0 THEN 10000
    ELSE RoundHalfEven(matched_count * 10000, total_planned)

calculate_accuracy(correct, total) ==
    IF total = 0 THEN 10000
    ELSE RoundHalfEven(correct * 10000, total)

\* get_status with > written for >=
get_status_exclusive(value) ==
    IF value > 9500 THEN "excellent"
    ELSE IF value > 8500 THEN "good"
    ELSE IF value > 7000 THEN "warning"
    ELSE "critical"

get_status(value) ==
    IF value >= 9500 THEN "excellent"
    ELSE IF value >= 8500 THEN "good"
    ELSE IF value >= 7000 THEN "warning"
    ELSE "critical"

\* lines 104 and 108-111: the matched pairs counted by the two accuracies
HighProgramMatches ==
    Cardinality({ j \in 1..Len(matched) :
                    100 * matched[j].match_score.num >= 95 * matched[j].match_score.den })

\* ExactDuration with the matcher's tolerance of 2 s in place of 1 s
ExactDurationTolerance ==
    Cardinality({ j \in 1..Len(matched) :
                    Abs(planned_spots[matched[j].planned].duration
                        - aired_spots[matched[j].aired].duration) <= 2 })

ExactDuration ==
    Cardinality({ j \in 1..Len(matched) :
                    Abs(planned_spots[matched[j].planned].duration
                        - aired_spots[matched[j].aired].duration) <= 1 })

\* calculate_metrics_tool on the JSON of match_spots_tool, which holds no
\* "error" key after a run that returned
CalculateMetricsTool ==
    /\ pc = "done"
    /\ LET delivery_rate == calculate_delivery_rate(summary.matched, summary.total_planned)
           over_delivered == summary.unmatched_aired
           under_delivered == summary.unmatched_planned
           program_accuracy == calculate_accuracy(HighProgramMatches, summary.matched)
           duration_accuracy == calculate_accuracy(ExactDuration, summary.matched)
       IN metrics' =
              [success |-> TRUE,
               delivery_rate |-> [value |-> delivery_rate,
                                  status |-> get_status(delivery_rate)],
               total_planned |-> [value |-> summary.total_planned],
               total_aired |-> [value |-> summary.total_aired],
               matched |-> [value |-> summary.matched],
               over_delivered |-> [value |-> over_delivered,
                                   status |-> IF over_delivered > 0 THEN "info" ELSE "good"],
               under_delivered |-> [value |-> under_delivered,
                                    status |-> IF under_delivered > 5 THEN "critical"
                                               ELSE IF under_delivered > 0 THEN "warning"
                                               ELSE "good"],
               program_accuracy |-> [value |-> program_accuracy,
                                     status |-> get_status(program_accuracy)],
               duration_accuracy |-> [value |-> duration_accuracy,
                                      status |-> get_status(duration_accuracy)]]
    /\ pc' = "metrics"
    /\ UNCHANGED <<request_vars, metrics_object, day_pattern, weekdays, planned_data, aired_data, planned_spots,
                   aired_spots, matched, discrepancies, unmatched_planned,
                   unmatched_aired, planned_match_counts, i, summary>>

\* calculate_metrics_from_result on the MatchResult object of the same run
\* and the lengths of the lists it was made from
CalculateMetricsFromResult ==
    /\ pc = "metrics"
    /\ LET total_planned == Len(planned_spots)
           total_aired == Len(aired_spots)
           matched_count == Len(matched)
       IN metrics_object' =
              [success |-> TRUE,
               delivery_rate |-> calculate_delivery_rate(matched_count, total_planned),
               total_planned |-> total_planned,
               total_aired |-> total_aired,
               matched |-> matched_count,
               over_delivered |-> Len(unmatched_aired),
               under_delivered |-> Len(unmatched_planned),
               program_accuracy |-> calculate_accuracy(HighProgramMatches, matched_count),
               duration_accuracy |-> calculate_accuracy(ExactDuration, matched_count),
               channel_accuracy |-> 10000]
    /\ pc' = "metrics_object"
    /\ UNCHANGED <<request_vars, metrics, day_pattern, weekdays, planned_data, aired_data,
                   planned_spots, aired_spots, matched, discrepancies,
                   unmatched_planned, unmatched_aired, planned_match_counts, i,
                   summary>>

\* the pipeline match_spots_tool -> calculate_metrics_tool, on longer lists
\* of fewer kinds of rows: a plan is one row repeated, a log is rows of the
\* planned duration, then rows 2 s longer, then rows of another program
Copies(row, n) == [k \in 1..n |-> row]

LongPlans == { Copies(PlannedRow(TVN, News, LV, 30, 1), n) : n \in 0..MaxPlanLong }

LongLogs ==
    { Copies(AiredRow(TVN, News, 0, 30), a) \o Copies(AiredRow(TVN, News, 0, 32), b)
          \o Copies(AiredRow(TVN, Nows, 0, 30), c) :
        a \in 0..MaxLogLong, b \in 0..MaxLogOff, c \in 0..MaxLogOther }

MetricsInit ==
    /\ planned_data \in LongPlans
    /\ aired_data \in LongLogs
    /\ planned_spots = <<>>
    /\ aired_spots = <<>>
    /\ matched = <<>>
    /\ discrepancies = <<>>
    /\ unmatched_planned = <<>>
    /\ unmatched_aired = <<>>
    /\ planned_match_counts = <<>>
    /\ i = 0
    /\ pc = "tool"
    /\ summary = NoSummary
    /\ day_pattern = <<>>
    /\ weekdays = <<>>
    /\ metrics = NoMetrics
    /\ metrics_object = NoMetrics
    /\ NoRequest

MetricsNext ==
    \/ Next
    \/ CalculateMetricsTool
    \/ CalculateMetricsFromResult

MetricsSpec == MetricsInit /\ [][MetricsNext]_vars

(***************************************************************************)
(* match_spots_tool on rows at the edge of the input contract: an empty    *)
(* program name, a missing date and a malformed date.                      *)
(***************************************************************************)
EdgePlannedPool == { PlannedRow(TVN, <<>>, LV, 30, 1), PlannedRow(TVN, News, LV, 30, 1) }

EdgeAiredPool == { AiredRow(TVN, <<>>, 0, 30), AiredRow(TVN, News, NoDate, 30),
                   AiredRow(TVN, News, BadDate, 30), AiredRow(TVN, Nows, 0, 30) }

EdgeInit ==
    /\ planned_data \in SeqUpTo(EdgePlannedPool, MaxPlanned)
    /\ aired_data \in SeqUpTo(EdgeAiredPool, MaxAired)
    /\ planned_spots = <<>>
    /\ aired_spots = <<>>
    /\ matched = <<>>
    /\ discrepancies = <<>>
    /\ unmatched_planned = <<>>
    /\ unmatched_aired = <<>>
    /\ planned_match_counts = <<>>
    /\ i = 0
    /\ pc = "tool"
    /\ summary = NoSummary
    /\ day_pattern = <<>>
    /\ weekdays = <<>>
    /\ metrics = NoMetrics
    /\ metrics_object = NoMetrics
    /\ NoRequest

EdgeSpec == EdgeInit /\ [][Next]_vars /\ WF_vars(Next)

(***************************************************************************)
(* The error results of the tools and generate_report_tool.  An error      *)
(* result is a record with the one field error; a message is the tuple of  *)
(* the strings it is formatted from.                                       *)
(***************************************************************************)
\* ToolInputError that looks at the execution input first
ToolInputErrorExecutionFirst ==
    /\ pc = "tool"
    /\ plan_error # <<>> \/ execution_error # <<>>
    /\ summary' = IF execution_error # <<>>
                  THEN [error |-> <<"Execution file error: ", execution_error[1]>>]
                  ELSE [error |-> <<"Plan file error: ", plan_error[1]>>]
    /\ pc' = "tool_error"
    /\ UNCHANGED <<request_vars, planned_data, aired_data, planned_spots,
                   aired_spots, matched, discrepancies, unmatched_planned,
                   unmatched_aired, planned_match_counts, i, day_pattern,
                   weekdays, metrics, metrics_object>>

\* match_spots_tool, lines 236-244
ToolInputError ==
    /\ pc = "tool"
    /\ plan_error # <<>> \/ execution_error # <<>>
    /\ summary' = IF plan_error # <<>>
                  THEN [error |-> <<"Plan file error: ", plan_error[1]>>]
                  ELSE [error |-> <<"Execution file error: ", execution_error[1]>>]
    /\ pc' = "tool_error"
    /\ UNCHANGED <<request_vars, planned_data, aired_data, planned_spots,
                   aired_spots, matched, discrepancies, unmatched_planned,
                   unmatched_aired, planned_match_counts, i, day_pattern,
                   weekdays, metrics, metrics_object>>

\* calculate_metrics_tool, lines 81-85
CalculateMetricsToolError ==
    /\ pc = "tool_error"
    /\ metrics' = [error |-> summary.error]
    /\ pc' = "metrics_error"
    /\ UNCHANGED <<request_vars, planned_data, aired_data, planned_spots,
                   aired_spots, matched, discrepancies, unmatched_planned,
                   unmatched_aired, planned_match_counts, i, summary,
                   day_pattern, weekdays, metrics_object>>

\* generate_report_tool, lines 39-64: the recommendations, by what they are about
Recommendations(delivery_rate, under_delivered, over_delivered, total_planned) ==
    (IF under_delivered > 0 THEN <<"follow_up">> ELSE <<>>)
    \o (IF 10 * over_delivered > total_planned THEN <<"investigate">> ELSE <<>>)
    \o (IF delivery_rate < 9500 THEN <<"make_goods">> ELSE <<>>)
    \o (IF delivery_rate >= 9800 THEN <<"excellent">> ELSE <<>>)

\* lines 66-70
DiscrepancySummary(discs) ==
    [t \in { discs[d].type : d \in 1..Len(discs) } |->
        Cardinality({ d \in 1..Len(discs) : discs[d].type = t })]

\* a slice [:n]
FirstN(seq, n) == SubSeq(seq, 1, IF Len(seq) < n THEN Len(seq) ELSE n)

\* generate_report_tool
GenerateReportTool ==
    /\ pc \in {"metrics", "metrics_error"}
    /\ report' =
           IF "error" \in DOMAIN metrics THEN [error |-> metrics.error]
           ELSE IF "error" \in DOMAIN summary THEN [error |-> summary.error]
           ELSE LET delivery_rate == metrics.delivery_rate.value
                    under_delivered == metrics.under_delivered.value
                    over_delivered == metrics.over_delivered.value
                IN [success |-> TRUE,
                    summary |-> [delivery_rate |-> delivery_rate,
                                 total_planned |-> summary.total_planned,
                                 total_aired |-> summary.total_aired,
                                 matched |-> summary.matched,
                                 over_delivered |-> over_delivered,
                                 under_delivered |-> under_delivered,
                                 discrepancy_count |-> Len(discrepancies)],
                    metrics |-> metrics,
                    discrepancy_summary |-> DiscrepancySummary(discrepancies),
                    discrepancies |-> FirstN(discrepancies, 20),
                    matched_spots |-> FirstN(matched, 50),
                    recommendations |->
                        Recommendations(delivery_rate, under_delivered,
                                        over_delivered, summary.total_planned)]
    /\ pc' = "report"
    /\ UNCHANGED <<plan_error, execution_error, endpoint, api_pc, events,
                   temp_files, plan_path, execution_path, response,
                   planned_data, aired_data, planned_spots, aired_spots,
                   matched, discrepancies, unmatched_planned, unmatched_aired,
                   planned_match_counts, i, summary, day_pattern, weekdays,
                   metrics, metrics_object>>

(***************************************************************************)
(* api_server: the endpoints /analyze and /analyze-stream, and the tools   *)
(* called one after the other on each other's output as the agent of       *)
(* media_monitor_agent does.  planned_data and aired_data are what the     *)
(* uploaded files hold.  A step of the stream is the code from one yield   *)
(* to the next.                                                            *)
(***************************************************************************)
ApiPlans == SeqUpTo({ PlannedRow(TVN, News, LV, 30, 1) }, MaxPlanned)

ApiLogs == SeqUpTo({ AiredRow(TVN, News, 0, 30), AiredRow(TVN, Nows, 0, 30) }, MaxAired)

ParseErrors == { <<>>, <<"unreadable">> }

ApiInit ==
    /\ planned_data \in ApiPlans
    /\ aired_data \in ApiLogs
    /\ planned_spots = <<>>
    /\ aired_spots = <<>>
    /\ matched = <<>>
    /\ discrepancies = <<>>
    /\ unmatched_planned = <<>>
    /\ unmatched_aired = <<>>
    /\ planned_match_counts = <<>>
    /\ i = 0
    /\ pc = "tool"
    /\ summary = NoSummary
    /\ day_pattern = <<>>
    /\ weekdays = <<>>
    /\ metrics = NoMetrics
    /\ metrics_object = NoMetrics
    /\ report = NoReport
    /\ endpoint \in {"agent", "analyze", "analyze_stream"}
    /\ IF endpoint = "agent"
       THEN /\ plan_error \in ParseErrors
            /\ execution_error \in ParseErrors
            /\ aired_data = <<>> => execution_error # <<>>
            /\ api_pc = At("agent", "")
       ELSE /\ plan_error = <<>>
            /\ execution_error = <<>>
            /\ api_pc = At("request", "")
    /\ events = <<>>
    /\ temp_files = {}
    /\ plan_path = <<>>
    /\ execution_path = <<>>
    /\ response = NoResponse

\* the order of the stages of generate_analysis_stream, lines 81-172
AfterStage ==
    [start |-> "parsing_plan", parsing_plan |-> "parsing_execution",
     parsing_execution |-> "matching", matching |-> "calculating_metrics",
     calculating_metrics |-> "generating_report", generating_report |-> "complete"]

\* send_event, lines 74-78
send_event(stage, status, data) == [stage |-> stage, status |-> status, data |-> data]

\* lines 189-211 and 238-261
Request ==
    /\ api_pc = At("request", "")
    /\ \E ai_available \in BOOLEAN, excel_files \in BOOLEAN :
          IF ~ai_available
          THEN /\ response' = [status_code |-> 503]
               /\ api_pc' = At("closed", "")
          ELSE IF ~excel_files
          THEN /\ response' = [status_code |-> 400]
               /\ api_pc' = IF endpoint = "analyze" THEN At("finally", "")
                            ELSE At("closed", "")
          ELSE /\ response' = response
               /\ api_pc' = At("save_plan", "")
    /\ UNCHANGED <<plan_error, execution_error, report, endpoint, events,
                   temp_files, plan_path, execution_path,
                   planned_data, aired_data, planned_spots, aired_spots,
                   matched, discrepancies, unmatched_planned, unmatched_aired,
                   planned_match_counts, i, pc, summary, day_pattern, weekdays,
                   metrics, metrics_object>>

\* save_temp_file, lines 50-60: the file is written, or mkstemp fails, or the
\* read or the write fails when mkstemp has made the file
SaveOutcomes == {"saved", "not_created", "created_not_written"}

\* an HTTPException out of save_temp_file: /analyze has it in its try (lines
\* 314-315 and 329-330), /analyze-stream has no handler for it (lines 214-215)
SaveFailed ==
    /\ response' = [status_code |-> 500]
    /\ api_pc' = IF endpoint = "analyze" THEN At("finally", "") ELSE At("closed", "")

\* lines 214 and 264
SavePlanFile ==
    /\ api_pc = At("save_plan", "")
    /\ \E outcome \in SaveOutcomes :
          IF outcome = "saved"
          THEN /\ temp_files' = temp_files \cup {"plan"}
               /\ plan_path' = <<"plan">>
               /\ api_pc' = At("save_execution", "")
               /\ response' = response
          ELSE /\ temp_files' = IF outcome = "created_not_written"
                                THEN temp_files \cup {"plan"} ELSE temp_files
               /\ plan_path' = plan_path
               /\ SaveFailed
    /\ UNCHANGED <<plan_error, execution_error, report, endpoint, events,
                   execution_path,
                   planned_data, aired_data, planned_spots, aired_spots,
                   matched, discrepancies, unmatched_planned, unmatched_aired,
                   planned_match_counts, i, pc, summary, day_pattern, weekdays,
                   metrics, metrics_object>>

\* lines 215-226 and 265
SaveExecutionFile ==
    /\ api_pc = At("save_execution", "")
    /\ \E outcome \in SaveOutcomes :
          IF outcome = "saved"
          THEN /\ temp_files' = temp_files \cup {"execution"}
               /\ execution_path' = <<"execution">>
               /\ IF endpoint = "analyze"
                  THEN /\ api_pc' = At("call", "parsing_plan")
                       /\ response' = response
                  ELSE /\ api_pc' = At("next", "start")
                       /\ response' = [status_code |-> 200]
          ELSE /\ temp_files' = IF outcome = "created_not_written"
                                THEN temp_files \cup {"execution"} ELSE temp_files
               /\ execution_path' = execution_path
               /\ SaveFailed
    /\ UNCHANGED <<plan_error, execution_error, report, endpoint, events,
                   plan_path,
                   planned_data, aired_data, planned_spots, aired_spots,
                   matched, discrepancies, unmatched_planned, unmatched_aired,
                   planned_match_counts, i, pc, summary, day_pattern, weekdays,
                   metrics, metrics_object>>

\* generate_analysis_stream from the yield that ends a stage to the next
\* yield: lines 82, 96, 110, 128, 141 and 160-172
StreamNextStage ==
    /\ endpoint = "analyze_stream"
    /\ api_pc.at = "next"
    /\ IF api_pc.stage = "generating_report"
       THEN /\ events' = Append(events,
                   send_event("complete", "complete",
                              <<report.summary.matched, report.recommendations>>))
            /\ api_pc' = At("finally", "")
       ELSE /\ events' = Append(events, send_event(AfterStage[api_pc.stage], "active", <<>>))
            /\ api_pc' = At("call", AfterStage[api_pc.stage])
    /\ UNCHANGED <<plan_error, execution_error, report, endpoint,
                   temp_files, plan_path, execution_path, response,
                   planned_data, aired_data, planned_spots, aired_spots,
                   matched, discrepancies, unmatched_planned, unmatched_aired,
                   planned_match_counts, i, pc, summary, day_pattern, weekdays,
                   metrics, metrics_object>>

\* a stage ends with an error result: the stream yields the error event and
\* returns (lines 89-91, 103-105, 121-123, 134-136, 154-156), /analyze
\* raises HTTPException 400 (lines 271-272, 278-279, 288-289)
StageError(stage, error) ==
    /\ IF endpoint = "analyze_stream"
       THEN /\ events' = Append(events, send_event(stage, "error", error))
            /\ response' = response
       ELSE /\ events' = events
            /\ response' = [status_code |-> 400]
    /\ api_pc' = At("finally", "")

\* a stage ends without an error: the stream yields the complete event
\* (lines 93, 107, 125, 138, 158), /analyze goes on to the next call
StageComplete(stage) ==
    /\ IF endpoint = "analyze_stream"
       THEN /\ events' = Append(events, send_event(stage, "complete", <<>>))
            /\ api_pc' = At("next", stage)
       ELSE /\ events' = events
            /\ api_pc' = At("call", AfterStage[stage])
    /\ response' = response

\* an exception in the try: the stream yields an error event (lines 174-175),
\* /analyze raises HTTPException 500 (lines 316-328; the message of the
\* exception of parse_plan_file_tool holds no "429")
StageRaised ==
    /\ IF endpoint = "analyze_stream"
       THEN /\ events' = Append(events, send_event("error", "error", <<"exception">>))
            /\ response' = response
       ELSE /\ events' = events
            /\ response' = [status_code |-> 500]
    /\ api_pc' = At("finally", "")

\* ParsePlan that goes on after the error event
ParsePlanNoReturn ==
    /\ api_pc = At("call", "parsing_plan")
    /\ \E outcome \in {"parsed", "error", "raised"} :
          IF outcome = "raised"
          THEN /\ StageRaised
               /\ plan_error' = plan_error
          ELSE IF outcome = "error"
          THEN /\ plan_error' = <<"unreadable">>
               /\ IF endpoint = "analyze_stream"
                  THEN /\ events' = Append(events, send_event("parsing_plan", "error", <<"unreadable">>))
                       /\ response' = response
                       /\ api_pc' = At("next", "parsing_plan")
                  ELSE StageError("parsing_plan", <<"unreadable">>)
          ELSE /\ StageComplete("parsing_plan")
               /\ plan_error' = plan_error
    /\ UNCHANGED <<execution_error, report, endpoint,
                   temp_files, plan_path, execution_path,
                   planned_data, aired_data, planned_spots, aired_spots,
                   matched, discrepancies, unmatched_planned, unmatched_aired,
                   planned_match_counts, i, pc, summary, day_pattern, weekdays,
                   metrics, metrics_object>>

\* lines 86-93 and 268-272 with parse_plan_file_tool (excel_parser, lines
\* 385-411): the file parses, or parse_plan_file gives an error, or the
\* workbook has a sheet named "error" and json.dumps of its spots raises
ParsePlan ==
    /\ api_pc = At("call", "parsing_plan")
    /\ \E outcome \in {"parsed", "error", "raised"} :
          IF outcome = "raised"
          THEN /\ StageRaised
               /\ plan_error' = plan_error
          ELSE IF outcome = "error"
          THEN /\ plan_error' = <<"unreadable">>
               /\ StageError("parsing_plan", <<"unreadable">>)
          ELSE /\ StageComplete("parsing_plan")
               /\ plan_error' = plan_error
    /\ UNCHANGED <<execution_error, report, endpoint,
                   temp_files, plan_path, execution_path,
                   planned_data, aired_data, planned_spots, aired_spots,
                   matched, discrepancies, unmatched_planned, unmatched_aired,
                   planned_match_counts, i, pc, summary, day_pattern, weekdays,
                   metrics, metrics_object>>

\* lines 100-107 and 275-279 with parse_execution_file_tool_v2 (excel_parser,
\* lines 414-440): an unreadable file and a file without spots are errors
ParseExecution ==
    /\ api_pc = At("call", "parsing_execution")
    /\ \E readable \in BOOLEAN :
          IF ~readable
          THEN /\ execution_error' = <<"Parser Error">>
               /\ StageError("parsing_execution", <<"Parser Error">>)
          ELSE IF aired_data = <<>>
          THEN /\ execution_error' = <<"ERROR_V2: No spots found">>
               /\ StageError("parsing_execution", <<"ERROR_V2: No spots found">>)
          ELSE /\ execution_error' = execution_error
               /\ StageComplete("parsing_execution")
    /\ UNCHANGED <<plan_error, report, endpoint,
                   temp_files, plan_path, execution_path,
                   planned_data, aired_data, planned_spots, aired_spots,
                   matched, discrepancies, unmatched_planned, unmatched_aired,
                   planned_match_counts, i, pc, summary, day_pattern, weekdays,
                   metrics, metrics_object>>

\* the rest of the variables of a step that handles the result of a tool
ToolResultFrame ==
    UNCHANGED <<plan_error, execution_error, report, endpoint,
                temp_files, plan_path, execution_path,
                planned_data, aired_data, planned_spots, aired_spots,
                matched, discrepancies, unmatched_planned, unmatched_aired,
                planned_match_counts, i, pc, summary, day_pattern, weekdays,
                metrics, metrics_object>>

\* lines 119-125 and 286-289, match_spots_tool having returned
MatchingResult ==
    /\ api_pc = At("call", "matching")
    /\ pc \in {"done", "tool_error"}
    /\ IF "error" \in DOMAIN summary
       THEN StageError("matching", summary.error)
       ELSE StageComplete("matching")
    /\ ToolResultFrame

\* lines 132-138, calculate_metrics_tool having returned; /analyze does not
\* look at the result (line 292)
MetricsResult ==
    /\ api_pc = At("call", "calculating_metrics")
    /\ pc \in {"metrics", "metrics_error"}
    /\ IF endpoint = "analyze_stream" /\ "error" \in DOMAIN metrics
       THEN StageError("calculating_metrics", metrics.error)
       ELSE StageComplete("calculating_metrics")
    /\ ToolResultFrame

\* lines 152-158 and 300-312, generate_report_tool having returned;
\* /analyze answers 200 whatever the report holds
ReportResult ==
    /\ api_pc = At("call", "generating_report")
    /\ pc = "report"
    /\ IF endpoint = "analyze_stream"
       THEN IF "error" \in DOMAIN report
            THEN StageError("generating_report", report.error)
            ELSE StageComplete("generating_report")
       ELSE /\ events' = events
            /\ response' = [status_code |-> 200]
            /\ api_pc' = At("finally", "")
    /\ ToolResultFrame

\* cleanup_temp_files(plan_path, execution_path), lines 62-69, in the
\* finally of lines 176-177 and 329-330
Finally ==
    /\ api_pc = At("finally", "")
    /\ temp_files' = temp_files \ ({ plan_path[k] : k \in 1..Len(plan_path) }
                                    \cup { execution_path[k] : k \in 1..Len(execution_path) })
    /\ api_pc' = At("closed", "")
    /\ UNCHANGED <<plan_error, execution_error, report, endpoint, events,
                   plan_path, execution_path, response,
                   planned_data, aired_data, planned_spots, aired_spots,
                   matched, discrepancies, unmatched_planned, unmatched_aired,
                   planned_match_counts, i, pc, summary, day_pattern, weekdays,
                   metrics, metrics_object>>

\* the tool a caller is in: the agent calls them in turn, an endpoint calls
\* the tool of the stage it is at
Calling(stage) == api_pc \in {At("agent", ""), At("call", stage)}

ApiNext ==
    \/ Request
    \/ SavePlanFile
    \/ SaveExecutionFile
    \/ StreamNextStage
    \/ ParsePlan
    \/ ParseExecution
    \/ Calling("matching") /\ Next
    \/ Calling("matching") /\ ToolInputError
    \/ MatchingResult
    \/ Calling("calculating_metrics") /\ CalculateMetricsTool
    \/ Calling("calculating_metrics") /\ CalculateMetricsToolError
    \/ MetricsResult
    \/ Calling("generating_report") /\ GenerateReportTool
    \/ ReportResult
    \/ Finally

\* a handler and a tool are straight-line code: a step that can be taken is taken
ApiSpec == ApiInit /\ [][ApiNext]_vars /\ WF_vars(ApiNext)

(***************************************************************************)
(* Vocabulary of the properties                                            *)
(***************************************************************************)
Returned == pc \in {"return", "done"}

MatchedOfPlanned(k) == { j \in 1..Len(matched) : matched[j].planned = k }
MatchedOfAired(a) == { j \in 1..Len(matched) : matched[j].aired = a }
Occurrences(lst, x) == Cardinality({ j \in 1..Len(lst) : lst[j] = x })
OfType(t) == { d \in 1..Len(discrepancies) : discrepancies[d].type = t }

IsExtraSpot(d) == d.type = "extra_spot"
IsMissingSpot(d) == d.type = "missing_spot"

\* the three constraints both passes of the specified engine keep
Qualifies(planned, aired) ==
    /\ check_channel_match(planned.channel, aired.channel)
    /\ check_duration_match(planned.duration, aired.duration, duration_tolerance)
    /\ ScoreGE(fuzzy_match_program(planned.program, aired.program), program_threshold)

\* dayEligible: the weekday of the date is in the expanded day pattern
DayEligible(days, date) ==
    /\ date \in 0..6
    /\ \E k \in 1..Len(parse_day_pattern(days)) : parse_day_pattern(days)[k] = date

WrongDay(days, date) == date \in 0..6 /\ ~DayEligible(days, date)

RECURSIVE SumCounts(_)
SumCounts(rows) == IF Len(rows) = 0 THEN 0 ELSE rows[1].count + SumCounts(Tail(rows))

\* the aired spots no matched pair holds, in list order
RECURSIVE UnpairedAired(_)
UnpairedAired(a) ==
    IF a > Len(aired_spots) THEN <<>>
    ELSE IF MatchedOfAired(a) = {} THEN <<a>> \o UnpairedAired(a + 1)
    ELSE UnpairedAired(a + 1)

(***************************************************************************)
(* C1: after match_spots, every planned instance appears exactly once      *)
(* across the planned side of matched and unmatched_planned.               *)
(***************************************************************************)
PlannedPartition ==
    Returned =>
        \A k \in 1..Len(planned_spots) :
            Cardinality(MatchedOfPlanned(k)) + Occurrences(unmatched_planned, k) = 1

(***************************************************************************)
(* C2: after match_spots, every aired instance appears exactly once across *)
(* the aired side of matched and unmatched_aired, and neither holds        *)
(* anything that is not an input aired instance.                           *)
(***************************************************************************)
AiredPartition ==
    Returned =>
        /\ \A a \in 1..Len(aired_spots) :
               Cardinality(MatchedOfAired(a)) + Occurrences(unmatched_aired, a) = 1
        /\ \A j \in 1..Len(matched) : matched[j].aired \in 1..Len(aired_spots)
        /\ \A j \in 1..Len(unmatched_aired) : unmatched_aired[j] \in 1..Len(aired_spots)

AiredPartitionWitness ==
    pc = "done" /\ Len(matched) >= 1 /\ Len(unmatched_aired) >= 1

(***************************************************************************)
(* C3: matching is one-to-one; when k aired spots all qualify for the one  *)
(* planned instance, one is matched and k-1 are extra_spot discrepancies   *)
(* listed in unmatched_aired.                                              *)
(***************************************************************************)
OneToOneMatching ==
    Returned =>
        /\ \A k \in 1..Len(planned_spots) : Cardinality(MatchedOfPlanned(k)) <= 1
        /\ \A a \in 1..Len(aired_spots) : Cardinality(MatchedOfAired(a)) <= 1
        /\ ( /\ Len(planned_spots) = 1
             /\ Len(aired_spots) >= 1
             /\ \A a \in 1..Len(aired_spots) : Qualifies(planned_spots[1], aired_spots[a]) )
           => /\ Len(matched) = 1
              /\ Len(unmatched_aired) = Len(aired_spots) - 1
              /\ Cardinality(OfType("extra_spot")) = Len(aired_spots) - 1

(***************************************************************************)
(* C4: one planned spot, two qualifying aired spots, one on an eligible    *)
(* day and one on a wrong day, in either order: the correct-day spot is    *)
(* matched and the wrong-day spot is the extra_spot.                       *)
(***************************************************************************)
Pass1Priority ==
    (Returned /\ Len(planned_spots) = 1 /\ Len(aired_spots) = 2) =>
        \A c \in 1..2 : \A w \in 1..2 :
            ( /\ c # w
              /\ Qualifies(planned_spots[1], aired_spots[c])
              /\ Qualifies(planned_spots[1], aired_spots[w])
              /\ DayEligible(planned_spots[1].days, aired_spots[c].date)
              /\ WrongDay(planned_spots[1].days, aired_spots[w].date) )
            => /\ Len(matched) = 1
               /\ matched[1].planned = 1
               /\ matched[1].aired = c
               /\ unmatched_aired = <<w>>
               /\ Len(discrepancies) = 1
               /\ discrepancies[1].type = "extra_spot"

(***************************************************************************)
(* C5: a pair matched on a weekday outside the plan's day pattern is       *)
(* committed with exactly one wrong_time discrepancy of severity medium,   *)
(* and neither spot is listed as unmatched.                                *)
(***************************************************************************)
WrongDayFallback ==
    Returned =>
        LET wrong == { j \in 1..Len(matched) :
                         WrongDay(planned_spots[matched[j].planned].days,
                                  aired_spots[matched[j].aired].date) }
        IN /\ Cardinality(OfType("wrong_time")) = Cardinality(wrong)
           /\ \A d \in OfType("wrong_time") : discrepancies[d].severity = "medium"
           /\ \A j \in wrong :
                  /\ Occurrences(unmatched_planned, matched[j].planned) = 0
                  /\ Occurrences(unmatched_aired, matched[j].aired) = 0
           /\ ( /\ Len(planned_spots) = 1
                /\ Len(aired_spots) = 1
                /\ Qualifies(planned_spots[1], aired_spots[1])
                /\ WrongDay(planned_spots[1].days, aired_spots[1].date) )
              => /\ Len(matched) = 1
                 /\ Len(discrepancies) = 1
                 /\ unmatched_planned = <<>>
                 /\ unmatched_aired = <<>>

(***************************************************************************)
(* C6: a pairing that qualifies on channel, duration, similarity and day   *)
(* records no discrepancy; when every planned spot has its own qualifying  *)
(* correct-day aired spot and there is no other aired spot, everything is  *)
(* matched and the discrepancy list is empty.                              *)
(***************************************************************************)
OwnEligibleAired ==
    /\ Len(planned_spots) = Len(aired_spots)
    /\ \E f \in Permutations(1..Len(planned_spots)) :
           \A k \in 1..Len(planned_spots) :
               /\ Qualifies(planned_spots[k], aired_spots[f[k]])
               /\ DayEligible(planned_spots[k].days, aired_spots[f[k]].date)

EligibleMatchNoDiscrepancy ==
    Returned =>
        /\ ( \A j \in 1..Len(matched) :
                 DayEligible(planned_spots[matched[j].planned].days,
                             aired_spots[matched[j].aired].date) )
           => Len(discrepancies) = Len(unmatched_planned) + Len(unmatched_aired)
        /\ OwnEligibleAired =>
               /\ \A k \in 1..Len(planned_spots) : MatchedOfPlanned(k) # {}
               /\ \A a \in 1..Len(aired_spots) : MatchedOfAired(a) # {}
               /\ discrepancies = <<>>

(***************************************************************************)
(* C7: every matched pair agrees on channel, has durations within the      *)
(* tolerance and a program similarity of at least the threshold, and its   *)
(* match_score is the program similarity of the pair; with or without day  *)
(* eligibility.                                                            *)
(***************************************************************************)
MatchedPairsQualify ==
    \A j \in 1..Len(matched) :
        LET planned == planned_spots[matched[j].planned]
            aired == aired_spots[matched[j].aired]
        IN /\ check_channel_match(planned.channel, aired.channel)
           /\ Abs(planned.duration - aired.duration) <= duration_tolerance
           /\ ScoreGE(fuzzy_match_program(planned.program, aired.program),
                      program_threshold)
           /\ matched[j].match_score =
                  fuzzy_match_program(planned.program, aired.program)

MatchedPairsQualifyWitness ==
    /\ pc = "done"
    /\ \E j \in 1..Len(matched) :
           /\ DayEligible(planned_spots[matched[j].planned].days,
                          aired_spots[matched[j].aired].date)
           /\ ScoreGT(ScoreOne, matched[j].match_score)
    /\ \E j \in 1..Len(matched) :
           WrongDay(planned_spots[matched[j].planned].days,
                    aired_spots[matched[j].aired].date)

(***************************************************************************)
(* C8: every aired spot left unmatched is in unmatched_aired and produces  *)
(* exactly one extra_spot discrepancy, of severity low.                    *)
(***************************************************************************)
ExtraSpotLow ==
    Returned =>
        LET extra == SelectSeq(discrepancies, IsExtraSpot) IN
        /\ unmatched_aired = UnpairedAired(1)
        /\ Len(extra) = Len(unmatched_aired)
        /\ \A k \in 1..Len(extra) :
               /\ extra[k].severity = "low"
               /\ k <= Len(unmatched_aired) =>
                      /\ extra[k].channel = aired_spots[unmatched_aired[k]].channel
                      /\ extra[k].program = aired_spots[unmatched_aired[k]].program

(***************************************************************************)
(* C9: every planned spot left unmatched is listed in unmatched_planned    *)
(* and produces exactly one missing_spot discrepancy, of severity high.    *)
(***************************************************************************)
MissingSpotHigh ==
    Returned =>
        LET missing == SelectSeq(discrepancies, IsMissingSpot)
            left == { k \in 1..Len(planned_spots) : MatchedOfPlanned(k) = {} }
        IN /\ \A k \in left : Occurrences(unmatched_planned, k) = 1
           /\ Len(missing) = Cardinality(left)
           /\ \A k \in 1..Len(missing) : missing[k].severity = "high"

(***************************************************************************)
(* C10: a plan row with count n stands for n planned instances: it can be  *)
(* matched by at most n aired spots and adds n to the planned total and to *)
(* the matched + unmatched_planned accounting.                             *)
(***************************************************************************)
CountExpansion ==
    pc = "done" =>
        /\ summary.total_planned = SumCounts(planned_data)
        /\ summary.matched + summary.unmatched_planned = SumCounts(planned_data)
        /\ \A k \in 1..Len(planned_data) :
               Cardinality(MatchedOfPlanned(k)) <= planned_data[k].count

(***************************************************************************)
(* C11: field-identical planned spots are distinct occurrences: two of     *)
(* them with two aired spots that qualify are paired with different aired  *)
(* spots, and an instance leaves unmatched_planned only when that very     *)
(* instance has been matched.                                              *)
(***************************************************************************)
Started == pc \notin {"tool", "match_spots"}

IdenticalPlannedDistinct ==
    /\ Started =>
           \A k \in 1..Len(planned_spots) :
               Occurrences(unmatched_planned, k) = 0 => MatchedOfPlanned(k) # {}
    /\ ( /\ Returned
         /\ Len(planned_spots) = 2
         /\ planned_spots[1] = planned_spots[2]
         /\ Len(aired_spots) = 2
         /\ Qualifies(planned_spots[1], aired_spots[1])
         /\ Qualifies(planned_spots[1], aired_spots[2]) )
       => /\ Len(matched) = 2
          /\ matched[1].planned # matched[2].planned
          /\ matched[1].aired # matched[2].aired

(***************************************************************************)
(* C12: the planned spot committed to an aired spot has the highest        *)
(* similarity among the candidates that pass the channel and duration      *)
(* tests (consumed or not, so among the unconsumed ones too), and among    *)
(* candidates of that highest score it is the earliest in the planned      *)
(* list.                                                                   *)
(***************************************************************************)
IsCandidate(k, a) ==
    /\ check_channel_match(planned_spots[k].channel, aired_spots[a].channel)
    /\ Abs(planned_spots[k].duration - aired_spots[a].duration) <= duration_tolerance

PairScore(k, a) == fuzzy_match_program(planned_spots[k].program, aired_spots[a].program)

BestCandidateReplaced ==
    /\ pc = "done"
    /\ \E j \in 1..Len(matched) : \E c \in 1..Len(planned_spots) :
           /\ c < matched[j].planned
           /\ IsCandidate(c, matched[j].aired)
           /\ ScoreGE(PairScore(c, matched[j].aired), program_threshold)

(***************************************************************************)
(* C15: a pair committed to matched is never removed or re-paired: every   *)
(* step of the run keeps every pair of matched at its place, with the same *)
(* planned spot, aired spot and score.                                     *)
(***************************************************************************)
MatchedIsFinal ==
    [][ \A j \in 1..Len(matched) :
            j <= Len(matched') /\ matched'[j] = matched[j] ]_vars

MatchedIsFinalWitness ==
    pc = "done" /\ Len(matched) >= 2

(***************************************************************************)
(* C14: for every finite planned and aired list match_spots terminates and *)
(* returns a MatchResult whose four lists are all present and well formed. *)
(***************************************************************************)
DiscrepancyTypes ==
    {"missing_spot", "extra_spot", "wrong_program", "wrong_duration",
     "wrong_channel", "wrong_date", "wrong_time"}

Severities == {"high", "medium", "low"}

MatchResultWellFormed ==
    /\ \A j \in 1..Len(matched) :
           /\ matched[j].planned \in 1..Len(planned_spots)
           /\ matched[j].aired \in 1..Len(aired_spots)
           /\ ScoreGE(matched[j].match_score, ScoreZero)
           /\ ScoreGE(ScoreOne, matched[j].match_score)
    /\ \A j \in 1..Len(discrepancies) :
           /\ discrepancies[j].type \in DiscrepancyTypes
           /\ discrepancies[j].severity \in Severities
    /\ \A j \in 1..Len(unmatched_planned) :
           unmatched_planned[j] \in 1..Len(planned_spots)
    /\ \A j \in 1..Len(unmatched_aired) :
           unmatched_aired[j] \in 1..Len(aired_spots)

MatchSpotsTerminates == <>(pc = "return" /\ MatchResultWellFormed)

MatchSpotsTerminatesWitness ==
    /\ pc = "return"
    /\ Len(planned_spots) >= 2
    /\ Len(aired_spots) >= 2
    /\ Len(matched) >= 1
    /\ Len(unmatched_planned) >= 1
    /\ Len(unmatched_aired) >= 1

(***************************************************************************)
(* C16: with the default tolerance of 2 seconds a planned and an aired     *)
(* duration match iff they differ by at most 2, in either direction: a     *)
(* pair that differs by exactly 2 is a candidate and one that differs by 3 *)
(* is not.  So an aired spot that has been processed is matched exactly    *)
(* when some planned spot of its channel and of similarity at least the    *)
(* threshold is within 2 seconds of it, and every matched pair is.         *)
(***************************************************************************)
Processed(a) == Started /\ a < i

DurationDiff(k, a) == aired_spots[a].duration - planned_spots[k].duration

ChannelAndProgramFit(k, a) ==
    /\ check_channel_match(planned_spots[k].channel, aired_spots[a].channel)
    /\ ScoreGE(PairScore(k, a), program_threshold)

ToleranceBoundary ==
    /\ \A j \in 1..Len(matched) :
           DurationDiff(matched[j].planned, matched[j].aired) \in -2..2
    /\ \A a \in 1..Len(aired_spots) :
           Processed(a) =>
               ( MatchedOfAired(a) # {}
                 <=> \E k \in 1..Len(planned_spots) :
                         ChannelAndProgramFit(k, a) /\ DurationDiff(k, a) \in -2..2 )

ToleranceBoundaryWitness ==
    /\ pc = "done"
    /\ \E j \in 1..Len(matched) : DurationDiff(matched[j].planned, matched[j].aired) = 2
    /\ \E a \in 1..Len(aired_spots) :
           /\ MatchedOfAired(a) = {}
           /\ \E k \in 1..Len(planned_spots) :
                  ChannelAndProgramFit(k, a) /\ DurationDiff(k, a) = -3

\* the same boundary in the other direction, in two runs: an aired spot 2 s
\* shorter than the planned one is matched, one 3 s longer is not
ShorterByTwoMatched ==
    /\ pc = "done"
    /\ \E j \in 1..Len(matched) : DurationDiff(matched[j].planned, matched[j].aired) = -2

LongerByThreeExcluded ==
    /\ pc = "done"
    /\ \E a \in 1..Len(aired_spots) :
           /\ MatchedOfAired(a) = {}
           /\ \E k \in 1..Len(planned_spots) :
                  ChannelAndProgramFit(k, a) /\ DurationDiff(k, a) = 3

(***************************************************************************)
(* C17: the comparison of the similarity against the default threshold is  *)
(* inclusive: a candidate whose similarity to the aired spot is exactly    *)
(* 0.8 qualifies and the aired spot is matched, and candidates below 0.8   *)
(* do not qualify: an aired spot all of whose candidates are below 0.8 is  *)
(* left unmatched, and no matched pair has a score below 0.8.              *)
(***************************************************************************)
AtLeastEightTenths(score) == 10 * score.num >= 8 * score.den

SimilarityBoundary ==
    /\ \A j \in 1..Len(matched) : AtLeastEightTenths(matched[j].match_score)
    /\ \A a \in 1..Len(aired_spots) :
           Processed(a) =>
               /\ (\E k \in 1..Len(planned_spots) :
                       IsCandidate(k, a) /\ AtLeastEightTenths(PairScore(k, a)))
                   => MatchedOfAired(a) # {}
               /\ (\A k \in 1..Len(planned_spots) :
                       IsCandidate(k, a) => ~AtLeastEightTenths(PairScore(k, a)))
                   => MatchedOfAired(a) = {}

\* one pair matched at exactly 8/10 and one aired spot left unmatched whose
\* best candidate scores 3/4
SimilarityBoundaryWitness ==
    /\ pc = "done"
    /\ \E j \in 1..Len(matched) :
           10 * matched[j].match_score.num = 8 * matched[j].match_score.den
    /\ \E a \in 1..Len(aired_spots) :
           /\ MatchedOfAired(a) = {}
           /\ \E k \in 1..Len(planned_spots) :
                  /\ IsCandidate(k, a)
                  /\ 4 * PairScore(k, a).num = 3 * PairScore(k, a).den

(***************************************************************************)
(* C18: the day pattern "D-M" expands to exactly the weekdays Sunday and   *)
(* Monday.                                                                 *)
(***************************************************************************)
Parsed == pc = "parsed"

WeekdaySet == { weekdays[k] : k \in 1..Len(weekdays) }

NoDayLetter(pattern) ==
    \A k \in 1..Len(pattern) : UpperChar(pattern[k]) \notin day_map_keys

UnparseableDefaultsToWeekdays ==
    (Parsed /\ NoDayLetter(day_pattern)) => WeekdaySet = {0, 1, 2, 3, 4}

\* what the code does keep: every pattern of at least one character and no
\* day letter expands to Monday..Friday
NonEmptyUnparseableDefaults ==
    (Parsed /\ NoDayLetter(day_pattern) /\ Len(day_pattern) > 0)
        => weekdays = <<0, 1, 2, 3, 4>>

EmptyPatternParsed ==
    Parsed /\ day_pattern = <<>> /\ weekdays = <<>>

(***************************************************************************)
(* C20: the delivery rate is matchedCount / totalPlanned * 100, and 100.0  *)
(* when totalPlanned is 0, for every matched count and planned total.      *)
(***************************************************************************)
MetricsDone == pc \in {"metrics", "metrics_object"}

DeliveryRateExact ==
    MetricsDone =>
        IF summary.total_planned = 0
        THEN metrics.delivery_rate.value = 10000
        ELSE metrics.delivery_rate.value * summary.total_planned
                 = summary.matched * 10000

\* C20 as the code has it: the quotient is rounded to two decimals, so the
\* reported rate is within half a hundredth of matched / total * 100
DeliveryRateRounded ==
    MetricsDone =>
        IF summary.total_planned = 0
        THEN metrics.delivery_rate.value = 10000
        ELSE 2 * Abs(metrics.delivery_rate.value * summary.total_planned
                     - summary.matched * 10000) <= summary.total_planned

\* two of three planned spots delivered: 66.67
DeliveryRateRoundedWitness ==
    /\ MetricsDone
    /\ summary.total_planned = 3
    /\ summary.matched = 2
    /\ metrics.delivery_rate.value = 6667

\* an empty plan: 100.0, whatever aired
DeliveryRateEmptyPlan ==
    /\ MetricsDone
    /\ summary.total_planned = 0
    /\ summary.total_aired > 0
    /\ metrics.delivery_rate.value = 10000

(***************************************************************************)
(* C21: duration accuracy is the percentage (to two decimals) of matched   *)
(* pairs whose planned and aired durations differ by at most 1 second, so  *)
(* a pair 2 seconds apart is matched but not duration-accurate; it is      *)
(* 100.0 when no pair is matched.  Both calculations report it.            *)
(***************************************************************************)
AccuratePairs ==
    Cardinality({ j \in 1..Len(matched) :
                    DurationDiff(matched[j].planned, matched[j].aired) \in -1..1 })

\* value, in hundredths, is part / whole * 100 to two decimals, 100.0 for whole = 0
IsPercentageOf(value, part, whole) ==
    IF whole = 0 THEN value = 10000
    ELSE 2 * Abs(value * whole - part * 10000) <= whole

DurationAccuracy ==
    /\ MetricsDone =>
           IsPercentageOf(metrics.duration_accuracy.value, AccuratePairs, Len(matched))
    /\ pc = "metrics_object" =>
           IsPercentageOf(metrics_object.duration_accuracy, AccuratePairs, Len(matched))

\* three pairs, one of them 2 s apart: 66.67
DurationAccuracyWitness ==
    /\ pc = "metrics_object"
    /\ Len(matched) = 3
    /\ \E j \in 1..Len(matched) :
           DurationDiff(matched[j].planned, matched[j].aired) = 2
    /\ AccuratePairs = 2
    /\ metrics.duration_accuracy.value = 6667
    /\ metrics_object.duration_accuracy = 6667

\* nothing matched: 100.0
DurationAccuracyNoPairs ==
    /\ pc = "metrics_object"
    /\ Len(matched) = 0
    /\ Len(aired_spots) > 0
    /\ Len(planned_spots) > 0
    /\ metrics.duration_accuracy.value = 10000

(***************************************************************************)
(* C22: the over-delivered metric is the number of unmatched aired spots   *)
(* and the under-delivered metric is the number of unmatched planned spots *)
(* of the match result, in the JSON-based and in the object-based          *)
(* calculation.                                                            *)
(***************************************************************************)
OverUnderDelivered ==
    /\ MetricsDone =>
           /\ metrics.over_delivered.value = Len(unmatched_aired)
           /\ metrics.under_delivered.value = Len(unmatched_planned)
    /\ pc = "metrics_object" =>
           /\ metrics_object.over_delivered = Len(unmatched_aired)
           /\ metrics_object.under_delivered = Len(unmatched_planned)

OverUnderDeliveredWitness ==
    /\ pc = "metrics_object"
    /\ Len(matched) > 0
    /\ metrics.over_delivered.value = 1
    /\ metrics.under_delivered.value = 2
    /\ metrics_object.over_delivered = 1
    /\ metrics_object.under_delivered = 2

(***************************************************************************)
(* C23: every percentage metric is labelled by bands with inclusive lower  *)
(* bounds: "excellent" from 95, "good" from 85 to below 95, "warning" from *)
(* 70 to below 85, "critical" below 70; the under-delivered count is       *)
(* "critical" above 5, "warning" from 1 to 5 and "good" at 0.              *)
(***************************************************************************)
InBand(m) ==
    /\ m.value >= 9500 => m.status = "excellent"
    /\ (m.value >= 8500 /\ m.value < 9500) => m.status = "good"
    /\ (m.value >= 7000 /\ m.value < 8500) => m.status = "warning"
    /\ m.value < 7000 => m.status = "critical"

StatusBands ==
    MetricsDone =>
        /\ InBand(metrics.delivery_rate)
        /\ InBand(metrics.program_accuracy)
        /\ InBand(metrics.duration_accuracy)
        /\ metrics.under_delivered.value > 5
               => metrics.under_delivered.status = "critical"
        /\ metrics.under_delivered.value \in 1..5
               => metrics.under_delivered.status = "warning"
        /\ metrics.under_delivered.value = 0
               => metrics.under_delivered.status = "good"

\* 17 of 20 pairs accurate is exactly 85.0 and "good", with a plan of 7
\* spots none of which is left over
StatusBandsWitness ==
    /\ MetricsDone
    /\ summary.total_planned = 7
    /\ metrics.duration_accuracy = [value |-> 8500, status |-> "good"]
    /\ metrics.under_delivered = [value |-> 0, status |-> "good"]

\* the other edges of the bands
StatusAtNinetyFive ==
    MetricsDone /\ metrics.duration_accuracy = [value |-> 9500, status |-> "excellent"]

StatusBelowNinetyFive ==
    MetricsDone /\ metrics.duration_accuracy = [value |-> 9474, status |-> "good"]

StatusAtSeventy ==
    MetricsDone /\ metrics.duration_accuracy = [value |-> 7000, status |-> "warning"]

StatusBelowSeventy ==
    MetricsDone /\ metrics.delivery_rate = [value |-> 6667, status |-> "critical"]

UnderDeliveredFive ==
    MetricsDone /\ metrics.under_delivered = [value |-> 5, status |-> "warning"]

UnderDeliveredSix ==
    MetricsDone /\ metrics.under_delivered = [value |-> 6, status |-> "critical"]

(***************************************************************************)
(* C25: a spot with an empty program, or an aired spot with a missing or   *)
(* malformed date, never makes match_spots raise: the run returns, a spot  *)
(* with an empty program is never matched, an aired one is in              *)
(* unmatched_aired with an extra_spot discrepancy and a planned one is in  *)
(* unmatched_planned with a missing_spot discrepancy.                      *)
(***************************************************************************)
EmptyProgramAiredRouted(a) ==
    /\ MatchedOfAired(a) = {}
    /\ Occurrences(unmatched_aired, a) = 1
    /\ \E d \in OfType("extra_spot") :
           /\ discrepancies[d].program = <<>>
           /\ discrepancies[d].actual = <<<<>>, "on", aired_spots[a].date>>

EmptyProgramPlannedRouted(k) ==
    /\ MatchedOfPlanned(k) = {}
    /\ \E j \in 1..Len(unmatched_planned) :
           planned_spots[unmatched_planned[j]] = planned_spots[k]
    /\ \E d \in OfType("missing_spot") : discrepancies[d].program = <<>>

EmptyProgramRouted ==
    Returned =>
        /\ \A a \in 1..Len(aired_spots) :
               aired_spots[a].program = <<>> => EmptyProgramAiredRouted(a)
        /\ \A k \in 1..Len(planned_spots) :
               planned_spots[k].program = <<>> => EmptyProgramPlannedRouted(k)

EdgeInputsNeverRaise == []EmptyProgramRouted /\ <>(pc = "done")

\* a run with an empty program on both sides and an aired spot without a
\* date that is matched
EdgeInputsWitness ==
    /\ pc = "done"
    /\ \E a \in 1..Len(aired_spots) : aired_spots[a].program = <<>>
    /\ \E k \in 1..Len(planned_spots) : planned_spots[k].program = <<>>
    /\ \E j \in 1..Len(matched) : aired_spots[matched[j].aired].date = NoDate

\* a malformed date in the row has become None in the spot
MalformedDateRun ==
    /\ pc = "done"
    /\ \E a \in 1..Len(aired_data) :
           aired_data[a].date = BadDate /\ aired_spots[a].date = NoDate

(***************************************************************************)
(* C26: match_spots leaves its inputs unchanged: no step of it changes the *)
(* length, the order or the elements of the planned list or of the aired   *)
(* list, nor a field of a spot; the bookkeeping of unmatched planned spots *)
(* is on a copy.                                                           *)
(***************************************************************************)
InMatchSpots == pc \in {"match_spots", "loop"}

InputsUnchanged ==
    [][ InMatchSpots => /\ planned_spots' = planned_spots
                        /\ aired_spots' = aired_spots ]_vars

\* the copy has lost a spot and the list passed in still has both
InputsUnchangedWitness ==
    /\ pc = "return"
    /\ Len(planned_spots) = 2
    /\ Len(unmatched_planned) < 2
    /\ Len(matched) > 0
    /\ planned_spots = [k \in 1..Len(planned_data) |-> PlannedSpotOf(planned_data[k])]
    /\ aired_spots = [k \in 1..Len(aired_data) |-> AiredSpotOf(aired_data[k])]

(***************************************************************************)
(* C27: for P planned and A aired spots the number of matched pairs is at  *)
(* most P and at most A, the summary satisfies matched + unmatched_planned *)
(* = total_planned, and the delivery rate computed from the summary is at  *)
(* most 100.                                                               *)
(***************************************************************************)
MatchedBounded ==
    MetricsDone =>
        /\ summary.matched <= summary.total_planned
        /\ summary.matched <= summary.total_aired
        /\ summary.matched + summary.unmatched_planned = summary.total_planned
        /\ metrics.delivery_rate.value <= 10000

\* the part of it that the single pass over the aired spots does give
MatchedAtMostAired ==
    MetricsDone => summary.matched + summary.unmatched_aired = summary.total_aired

\* one planned spot paired with two aired spots
DeliveryRateTwoHundred ==
    /\ MetricsDone
    /\ summary.total_planned = 1
    /\ summary.matched = 2
    /\ summary.unmatched_planned = 0
    /\ metrics.delivery_rate.value = 20000

(***************************************************************************)
(* C28: in every result of match_spots the discrepancy list accounts for   *)
(* the unmatched spots one for one: as many extra_spot discrepancies as    *)
(* unmatched aired spots, as many missing_spot discrepancies as unmatched  *)
(* planned spots, and every extra_spot before every missing_spot.          *)
(***************************************************************************)
DiscrepanciesAccountForUnmatched ==
    Returned =>
        /\ Cardinality(OfType("extra_spot")) = Len(unmatched_aired)
        /\ Cardinality(OfType("missing_spot")) = Len(unmatched_planned)
        /\ \A e \in OfType("extra_spot") : \A m \in OfType("missing_spot") : e < m

\* a result with an extra spot and a missing spot
DiscrepanciesAccountWitness ==
    /\ Returned
    /\ Len(unmatched_aired) >= 1
    /\ Len(unmatched_planned) >= 1
    /\ Len(matched) >= 1
    /\ Len(discrepancies) = 2

(***************************************************************************)
(* C24: if the parsed plan or the parsed execution input carries an error, *)
(* no matching is performed: match_spots_tool returns an error result, the *)
(* plan error before the execution error, with no match data; the metrics  *)
(* tool and the report tool return an error for an error input; /analyze   *)
(* and /analyze-stream stop at the parse stage that failed and never call  *)
(* the matcher.                                                            *)
(***************************************************************************)
InputError == plan_error # <<>> \/ execution_error # <<>>

InputErrorResult ==
    [error |-> IF plan_error # <<>>
               THEN <<"Plan file error: ", plan_error[1]>>
               ELSE <<"Execution file error: ", execution_error[1]>>]

FailedParseStage == IF plan_error # <<>> THEN "parsing_plan" ELSE "parsing_execution"

ErrorInputsNeverMatched ==
    InputError =>
        /\ pc \in {"tool", "tool_error", "metrics_error", "report"}
        /\ planned_spots = <<>> /\ aired_spots = <<>>
        /\ matched = <<>> /\ discrepancies = <<>>
        /\ pc # "tool" => summary = InputErrorResult
        /\ pc \in {"metrics_error", "report"} => metrics = InputErrorResult
        /\ pc = "report" => report = InputErrorResult
        /\ endpoint # "agent" =>
               /\ pc = "tool"
               /\ api_pc.at \in {"finally", "closed"}
               /\ endpoint = "analyze" => response.status_code = 400
               /\ endpoint = "analyze_stream" =>
                      /\ events[Len(events)].stage = FailedParseStage
                      /\ events[Len(events)].status = "error"

\* both inputs carry an error and the three tools have been called
ErrorInputsWitness ==
    /\ endpoint = "agent"
    /\ plan_error # <<>> /\ execution_error # <<>>
    /\ pc = "report"

ExecutionErrorAlone ==
    /\ endpoint = "agent"
    /\ plan_error = <<>> /\ execution_error # <<>>
    /\ pc = "report"

StreamStoppedAtExecution ==
    /\ endpoint = "analyze_stream"
    /\ execution_error # <<>>
    /\ api_pc.at = "closed"

AnalyzeStoppedAtPlan ==
    /\ endpoint = "analyze"
    /\ plan_error # <<>>
    /\ api_pc.at = "closed"

(***************************************************************************)
(* C29: the stream emits the stage events in the order parsing_plan,       *)
(* parsing_execution, matching, calculating_metrics, generating_report: a  *)
(* stage's "active" event comes right before its "complete" or "error"     *)
(* event, a stage starts only when the stage before it has completed,      *)
(* no event follows an "error" event, and the final "complete" event comes *)
(* at most once and after the five stages have completed.                  *)
(***************************************************************************)
StageOrder == <<"parsing_plan", "parsing_execution", "matching",
                "calculating_metrics", "generating_report">>

IsStage(s) == \E n \in 1..Len(StageOrder) : StageOrder[n] = s

StageNo(s) == CHOOSE n \in 1..Len(StageOrder) : StageOrder[n] = s

StageEventsInOrder ==
    /\ endpoint # "analyze_stream" => events = <<>>
    /\ \A k \in 1..Len(events) :
          /\ events[k].stage \in {"complete", "error"} \/ IsStage(events[k].stage)
          /\ events[k].status = "active" =>
                /\ IsStage(events[k].stage)
                /\ IF StageNo(events[k].stage) = 1 THEN k = 1
                   ELSE /\ k > 1
                        /\ events[k - 1].stage = StageOrder[StageNo(events[k].stage) - 1]
                        /\ events[k - 1].status = "complete"
          /\ (IsStage(events[k].stage) /\ events[k].status # "active") =>
                /\ events[k].status \in {"complete", "error"}
                /\ k > 1
                /\ events[k - 1].stage = events[k].stage
                /\ events[k - 1].status = "active"
          /\ events[k].status = "error" => k = Len(events)
          /\ events[k].stage = "error" => events[k].status = "error"
          /\ events[k].stage = "complete" =>
                /\ events[k].status = "complete"
                /\ k = Len(events)
                /\ \A n \in 1..Len(StageOrder) : \E j \in 1..(k - 1) :
                       /\ events[j].stage = StageOrder[n]
                       /\ events[j].status = "complete"

\* the whole stream: two events a stage and the final one
StageEventsWitness ==
    /\ Len(events) = 2 * Len(StageOrder) + 1
    /\ events[Len(events)].stage = "complete"
    /\ api_pc.at = "closed"

StreamStageErrorSeen ==
    /\ Len(events) = 4
    /\ events[4] = [stage |-> "parsing_execution", status |-> "error",
                    data |-> <<"ERROR_V2: No spots found">>]

StreamExceptionSeen ==
    /\ events # <<>>
    /\ events[Len(events)].stage = "error"
    /\ api_pc.at = "closed"

(***************************************************************************)
(* C30: every temporary file made for an /analyze or /analyze-stream       *)
(* request is removed in the end, whatever the outcome: success, an error  *)
(* of a stage, an exception during the analysis, a failure to save the     *)
(* second upload when the first is saved.                                  *)
(***************************************************************************)
TempFilesRemoved == (temp_files # {}) ~> (temp_files = {})

\* /analyze-stream with the first upload saved and the second not
StreamSecondSaveFailed ==
    /\ endpoint = "analyze_stream"
    /\ api_pc.at = "closed"
    /\ plan_path # <<>> /\ execution_path = <<>>
    /\ "execution" \notin temp_files

StreamFirstFileRemoved == StreamSecondSaveFailed => "plan" \notin temp_files

\* /analyze removes every file whose path save_temp_file returned; so does
\* the stream once the generator has run to its end
ReturnedPathsRemoved ==
    (api_pc.at = "closed" /\ (endpoint = "analyze" \/ events # <<>>)) =>
        /\ plan_path # <<>> => "plan" \notin temp_files
        /\ execution_path # <<>> => "execution" \notin temp_files

\* a file that mkstemp made and save_temp_file failed to write has no path
AnalyzeUnwrittenFileLeft ==
    /\ endpoint = "analyze"
    /\ api_pc.at = "closed"
    /\ plan_path # <<>> /\ execution_path = <<>>
    /\ temp_files = {"execution"}

====
